---- MODULE Spec2Model ----
(***************************************************************************)
(* Regular expressions over bytes with Brzozowski derivatives, the          *)
(* derivative-based DFA builder, Hopcroft minimisation, the lexer table     *)
(* and the scanner of rust-regex-deriv, as a state machine.                 *)
(*                                                                          *)
(* The byte alphabet is scaled down: a bitmap of NumWords words of          *)
(* WordBits bits each (the program: 32 words of 8 bits).                    *)
(***************************************************************************)
EXTENDS Integers, Sequences, FiniteSets, TLC

\* ------------------------------------------------------------------ bounds
NumWords == 2
WordBits == 2
\* constructor applications in one run of the algebra, and the length of the texts
MaxOps     == 3
MaxTextLen == 2
\* the DFA builder stops the model when it is about to hold this many states
MaxDfaStates == 8
\* the scanner's inputs: at most MaxInputLen bytes
MaxInputLen == 3

RECURSIVE Pow2(_)
Pow2(n) == IF n = 0 THEN 1 ELSE 2 * Pow2(n - 1)

NumBytes == NumWords * WordBits
Bytes    == 0 .. (NumBytes - 1)
WordMax  == Pow2(WordBits) - 1
Words    == 0 .. WordMax

\* ------------------------------------------------------- words of a bitmap
RECURSIVE BitAndBits(_, _, _)
BitAndBits(x, y, k) == IF k = 0 THEN 0
                       ELSE (x % 2) * (y % 2) + 2 * BitAndBits(x \div 2, y \div 2, k - 1)

BitAndTable == [a \in Words, b \in Words |-> BitAndBits(a, b, WordBits)]

BitAnd(a, b) == BitAndTable[a, b]
BitOr(a, b)  == a + b - BitAndTable[a, b]
BitNot(a)    == WordMax - a

RECURSIVE trailing_zeros(_)
trailing_zeros(w) == IF w = 0 THEN WordBits
                     ELSE IF w % 2 = 1 THEN 0 ELSE 1 + trailing_zeros(w \div 2)

\* encode: (index, one-bit word) of a value; the index is 0-based as in the code
encode(value) == <<value \div WordBits, Pow2(value % WordBits)>>
decode(index, word) == WordBits * index + trailing_zeros(word)

\* ----------------------------------------------------------------- ByteSet
\* A ByteSet is its bitmap: a tuple of NumWords words (bitmap[i] is bm[i + 1]).
bs_empty    == [i \in 1 .. NumWords |-> 0]
bs_universe == [i \in 1 .. NumWords |-> WordMax]

point(value) == [i \in 1 .. NumWords |->
                    IF i = encode(value)[1] + 1 THEN encode(value)[2] ELSE 0]

\* range: first_word holds the bits from `from` up, last_word the bits up to `to`
RangeFirstWord(from) == BitNot(encode(from)[2] - 1)
RangeLastWord(to)    == BitOr(encode(to)[2], encode(to)[2] - 1)

range(from, to) ==
    LET from_index == encode(from)[1]
        to_index   == encode(to)[1]
    IN [i \in 1 .. NumWords |->
          IF from_index = to_index
          THEN IF i = from_index + 1
               THEN BitAnd(RangeFirstWord(from), RangeLastWord(to)) ELSE 0
          \* bitmap[from_index], then the words strictly between, then
          \* bitmap[to_index], each assignment overwriting the one before
          ELSE IF i = to_index + 1 THEN RangeLastWord(to)
          ELSE IF i - 1 > from_index /\ i - 1 < to_index THEN WordMax
          ELSE IF i = from_index + 1 THEN RangeFirstWord(from)
          ELSE 0]

is_empty(bm)    == \A i \in 1 .. NumWords : bm[i] = 0
\* byte_set.rs tests each word against 0, not against the full word
is_universe(bm) == \A i \in 1 .. NumWords : ~(bm[i] = 0)

\* contains answering for the whole set: true of every value once one is in
contains_any(bm, value) == ~is_empty(bm)

contains(bm, value) == BitAnd(bm[encode(value)[1] + 1], encode(value)[2]) # 0

complement(bm)      == [i \in 1 .. NumWords |-> BitNot(bm[i])]
intersection(x, y)  == [i \in 1 .. NumWords |-> BitAnd(x[i], y[i])]
union(x, y)         == [i \in 1 .. NumWords |-> BitOr(x[i], y[i])]

\* first: the lowest non-zero word as (index, word), or <<>> for None
first(bm) == IF is_empty(bm) THEN <<>>
             ELSE LET i == CHOOSE k \in 1 .. NumWords :
                               bm[k] # 0 /\ \A j \in 1 .. (k - 1) : bm[j] = 0
                  IN <<i - 1, bm[i]>>

\* smallest: -1 models None
smallest(bm) == IF first(bm) = <<>> THEN -1 ELSE decode(first(bm)[1], first(bm)[2])

\* Bytes::next giving up one word early
RECURSIVE BytesNext_one_word_short(_, _, _)
BytesNext_one_word_short(bm, index, word) ==
    IF word = 0
    THEN IF index < NumWords - 2
         THEN BytesNext_one_word_short(bm, index + 1, bm[index + 2])
         ELSE <<>>
    ELSE <<decode(index, word)>>
         \o BytesNext_one_word_short(bm, index, BitAnd(word, word - 1))

\* Bytes::next unrolled: the values the iterator yields, in the order it yields them
RECURSIVE BytesNext(_, _, _)
BytesNext(bm, index, word) ==
    IF word = 0
    THEN IF index < NumWords - 1
         THEN BytesNext(bm, index + 1, bm[index + 2])
         ELSE <<>>
    ELSE <<decode(index, word)>> \o BytesNext(bm, index, BitAnd(word, word - 1))

bytes(bm) == IF first(bm) = <<>> THEN BytesNext(bm, NumWords, 0)
             ELSE BytesNext(bm, first(bm)[1], first(bm)[2])

\* lexicographic order of the bitmaps (derived Ord on the array): -1, 0, 1
RECURSIVE CmpWords(_, _, _)
CmpWords(x, y, i) ==
    IF i > NumWords THEN 0
    ELSE IF x[i] < y[i] THEN -1
    ELSE IF x[i] > y[i] THEN 1
    ELSE CmpWords(x, y, i + 1)

\* ------------------------------------------------------------------- RegEx
\* Operator: the variant index is the derived order's first key
TagNone    == 0
TagEpsilon == 1
TagSet     == 2
TagCat     == 3
TagStar    == 4
TagOr      == 5
TagAnd     == 6
TagNot     == 7

\* RegEx::new: a node; Star and Not hold their child as the only element of kids
Node(tag, set, kids) == [tag |-> tag, set |-> set, kids |-> kids]

none  == Node(TagNone, bs_empty, <<>>)
empty == Node(TagEpsilon, bs_empty, <<>>)
RawSet(a)   == Node(TagSet, a, <<>>)
RawCat(res) == Node(TagCat, bs_empty, res)
RawStar(re) == Node(TagStar, bs_empty, <<re>>)
RawOr(res)  == Node(TagOr, bs_empty, res)
RawAnd(res) == Node(TagAnd, bs_empty, res)
RawNot(re)  == Node(TagNot, bs_empty, <<re>>)

\* derived Ord on RegEx / Operator: variant first, then the fields; a Vec compares
\* element by element and then by length
RECURSIVE CmpRegEx(_, _), CmpVec(_, _, _)
CmpRegEx(r, s) ==
    IF r.tag < s.tag THEN -1
    ELSE IF r.tag > s.tag THEN 1
    ELSE IF r.tag = TagSet THEN CmpWords(r.set, s.set, 1)
    ELSE CmpVec(r.kids, s.kids, 1)

CmpVec(xs, ys, i) ==
    IF i > Len(xs) /\ i > Len(ys) THEN 0
    ELSE IF i > Len(xs) THEN -1
    ELSE IF i > Len(ys) THEN 1
    ELSE LET c == CmpRegEx(xs[i], ys[i])
         IN IF c # 0 THEN c ELSE CmpVec(xs, ys, i + 1)

Tail1(xs) == SubSeq(xs, 2, Len(xs))

\* itertools merge of two iterators: the left element goes first when left <= right
RECURSIVE merge(_, _)
merge(xs, ys) ==
    IF xs = <<>> THEN ys
    ELSE IF ys = <<>> THEN xs
    ELSE IF CmpRegEx(xs[1], ys[1]) <= 0
         THEN <<xs[1]>> \o merge(Tail1(xs), ys)
         ELSE <<ys[1]>> \o merge(xs, Tail1(ys))

\* is_nullable
RECURSIVE is_nullable(_)
is_nullable(r) ==
    CASE r.tag = TagNone    -> FALSE
      [] r.tag = TagEpsilon -> TRUE
      [] r.tag = TagSet     -> FALSE
      [] r.tag = TagCat     -> \A i \in 1 .. Len(r.kids) : is_nullable(r.kids[i])
      [] r.tag = TagStar    -> TRUE
      [] r.tag = TagOr      -> \E i \in 1 .. Len(r.kids) : is_nullable(r.kids[i])
      [] r.tag = TagAnd     -> \A i \in 1 .. Len(r.kids) : is_nullable(r.kids[i])
      [] r.tag = TagNot     -> ~is_nullable(r.kids[1])

\* RegEx::set
set(a) == IF is_empty(a) THEN none ELSE RawSet(a)

\* RegEx::then with cat_aux (the arms of a match are tried in order, as the
\* arms of a CASE are by TLC)
then(self, other) ==
    CASE other.tag = TagEpsilon -> self
      [] self.tag = TagEpsilon  -> other
      [] other.tag = TagNone    -> none
      [] self.tag = TagNone     -> none
      [] self.tag = TagCat /\ other.tag = TagCat -> RawCat(self.kids \o other.kids)
      [] other.tag = TagCat     -> RawCat(<<self>> \o other.kids)
      [] self.tag = TagCat      -> RawCat(self.kids \o <<other>>)
      [] OTHER                  -> RawCat(<<self, other>>)

\* RegEx::star
star(self) ==
    CASE self.tag \in {TagNone, TagEpsilon} -> empty
      [] self.tag = TagStar                 -> self
      [] OTHER                              -> RawStar(self)

\* merged_sets, the loop: <<seen a Set, the reduced set, the other children>>
RECURSIVE MergedLoop(_, _, _, _, _)
MergedLoop(res, isUnion, seen, acc, new_res) ==
    IF res = <<>> THEN <<seen, acc, new_res>>
    ELSE LET re == res[1]
         IN IF re.tag = TagSet
            THEN MergedLoop(Tail1(res), isUnion, TRUE,
                     IF ~seen THEN re.set
                     ELSE IF isUnion THEN union(acc, re.set)
                     ELSE intersection(acc, re.set),
                     new_res)
            ELSE MergedLoop(Tail1(res), isUnion, seen, acc, new_res \o <<re>>)

\* merged_sets with the reduced Set pushed at the end instead of merged in order
merged_sets_push_back(res, isUnion) ==
    LET l == MergedLoop(res, isUnion, FALSE, bs_empty, <<>>)
    IN IF l[1] THEN l[3] \o <<RawSet(l[2])>> ELSE l[3]

\* merged_sets: the reduced Set is merged back as a raw Set node
merged_sets(res, isUnion) ==
    LET l == MergedLoop(res, isUnion, FALSE, bs_empty, <<>>)
    IN IF l[1] THEN merge(l[3], <<RawSet(l[2])>>) ELSE l[3]

or_aux(res1, res2) ==
    LET refs == merged_sets(merge(res1, res2), TRUE)
    IN IF refs = <<>> THEN none
       ELSE IF Len(refs) = 1 THEN refs[1]
       ELSE RawOr(refs)

\* RegEx::or
or(self, other) ==
    CASE other.tag = TagNone -> self
      [] self.tag = TagNone  -> other
      [] self.tag = TagSet /\ other.tag = TagSet -> set(union(self.set, other.set))
      [] self.tag = TagOr /\ other.tag = TagOr   -> or_aux(self.kids, other.kids)
      [] self.tag = TagOr    -> or_aux(self.kids, <<other>>)
      [] other.tag = TagOr   -> or_aux(<<self>>, other.kids)
      [] OTHER               -> or_aux(<<self>>, <<other>>)

\* and taking the union where it should intersect
and_as_or(self, other) == or(self, other)

and_aux(res1, res2) ==
    LET refs == merged_sets(merge(res1, res2), FALSE)
    IN IF refs = <<>> THEN none
       ELSE IF Len(refs) = 1 THEN refs[1]
       ELSE RawAnd(refs)

\* RegEx::and
and(self, other) ==
    CASE other.tag = TagNone    -> none
      [] self.tag = TagNone     -> none
      [] other.tag = TagEpsilon -> IF is_nullable(self) THEN empty ELSE none
      [] self.tag = TagEpsilon  -> IF is_nullable(other) THEN empty ELSE none
      [] self.tag = TagSet /\ other.tag = TagSet -> set(intersection(self.set, other.set))
      [] self.tag = TagAnd /\ other.tag = TagAnd -> and_aux(self.kids, other.kids)
      [] self.tag = TagAnd      -> and_aux(self.kids, <<other>>)
      [] other.tag = TagAnd     -> and_aux(<<self>>, other.kids)
      [] OTHER                  -> and_aux(<<self>>, <<other>>)

\* RegEx::not
\* not wrapping whatever it is given that is not a Not
not_always_wraps(self) ==
    IF self.tag = TagNot THEN self.kids[1] ELSE RawNot(self)

\* not without the arm that unwraps a Not
not_never_unwraps(self) ==
    CASE self.tag = TagNone -> set(bs_universe)
      [] self.tag = TagSet  -> set(complement(self.set))
      [] OTHER              -> RawNot(self)

not(self) ==
    CASE self.tag = TagNone -> set(bs_universe)
      [] self.tag = TagSet  -> set(complement(self.set))
      [] self.tag = TagNot  -> self.kids[1]
      [] OTHER              -> RawNot(self)

opt(self)         == or(self, empty)
plus(self)        == then(self, star(self))
diff(self, other) == and(self, not(other))

\* RegEx::deriv with deriv_cat / deriv_or / deriv_and; Panic models unreachable!()
Panic == Node(-1, bs_empty, <<>>)

RECURSIVE deriv(_, _)
deriv_cat_aux(r, s, a) ==
    LET nu_r_da_s == IF is_nullable(r) THEN deriv(s, a) ELSE none
    IN or(then(deriv(r, a), s), nu_r_da_s)

\* deriv_cat without the arm for two children
deriv_cat_no_pair_arm(children, a) ==
    IF Len(children) < 2 THEN Panic
    ELSE deriv_cat_aux(children[1], RawCat(Tail1(children)), a)

deriv_cat(children, a) ==
    IF Len(children) < 2 THEN Panic
    ELSE IF Len(children) = 2 THEN deriv_cat_aux(children[1], children[2], a)
    ELSE deriv_cat_aux(children[1], RawCat(Tail1(children)), a)

deriv_or(children, a) ==
    IF Len(children) < 2 THEN Panic
    ELSE IF Len(children) = 2 THEN or(deriv(children[1], a), deriv(children[2], a))
    ELSE or(deriv(children[1], a), deriv(RawOr(Tail1(children)), a))

deriv_and(children, a) ==
    IF Len(children) < 2 THEN Panic
    ELSE IF Len(children) = 2 THEN and(deriv(children[1], a), deriv(children[2], a))
    ELSE and(deriv(children[1], a), deriv(RawAnd(Tail1(children)), a))

deriv(self, a) ==
    CASE self.tag \in {TagNone, TagEpsilon} -> none
      [] self.tag = TagSet  -> IF contains(self.set, a) THEN empty ELSE none
      [] self.tag = TagCat  -> deriv_cat(self.kids, a)
      [] self.tag = TagStar -> then(deriv(self.kids[1], a), self)
      [] self.tag = TagOr   -> deriv_or(self.kids, a)
      [] self.tag = TagAnd  -> deriv_and(self.kids, a)
      [] self.tag = TagNot  -> not(deriv(self.kids[1], a))

\* RegEx::is_fullmatch: the fold of deriv over the text, cut short on None
RECURSIVE is_fullmatch_from(_, _, _)
is_fullmatch_from(regex, text, i) ==
    IF i > Len(text) THEN is_nullable(regex)
    ELSE LET d == deriv(regex, text[i])
         IN IF d.tag = TagNone THEN FALSE ELSE is_fullmatch_from(d, text, i + 1)

is_fullmatch(self, text) == is_fullmatch_from(self, text, 1)

\* --------------------------------------------------------------------- DFA
\* Option<usize>::None of a state's class
NoClass == -1

\* State::new / State::sink: next is a map from the bytes that have an entry
State(next, class) == [class |-> class, next |-> next]
NoNext     == [b \in {} |-> 0]
\* a sink that accepts pattern 0
sink_state_accepting == State(NoNext, 0)

sink_state == State(NoNext, NoClass)

\* RegExVec::sink, RegExVec::deriv, RegExVec::class (position of the first
\* nullable component, 0-based)
vec_sink(size) == [i \in 1 .. size |-> none]
vec_deriv(q, a) == [i \in 1 .. Len(q) |-> deriv(q[i], a)]
vec_class(q) ==
    IF \E i \in 1 .. Len(q) : is_nullable(q[i])
    THEN (CHOOSE i \in 1 .. Len(q) :
             is_nullable(q[i]) /\ \A j \in 1 .. (i - 1) : ~is_nullable(q[j])) - 1
    ELSE NoClass

\* cross: the non-empty pairwise intersections
cross(set1, set2) ==
    { intersection(t, s) : t \in set2, s \in set1 } \ { bs_empty }

\* approx_deriv_classes: the loop over the stack of nodes still to visit
RECURSIVE AdcLoop(_, _)
AdcLoop(stack, charsets) ==
    IF stack = <<>> THEN charsets
    ELSE LET node == stack[Len(stack)]
             rest == SubSeq(stack, 1, Len(stack) - 1)
         IN CASE node.tag \in {TagNone, TagEpsilon} -> AdcLoop(rest, charsets)
              [] node.tag = TagSet ->
                    IF ~is_empty(node.set) /\ ~is_universe(node.set)
                    THEN AdcLoop(rest, cross(charsets, {node.set, complement(node.set)}))
                    ELSE AdcLoop(rest, charsets)
              [] node.tag = TagCat ->
                    \* the heads up to and including the first that is not nullable
                    LET n == Len(node.kids)
                        stop == IF \E h \in 1 .. n : ~is_nullable(node.kids[h])
                                THEN CHOOSE h \in 1 .. n :
                                        /\ ~is_nullable(node.kids[h])
                                        /\ \A g \in 1 .. (h - 1) : is_nullable(node.kids[g])
                                ELSE n
                    IN AdcLoop(rest \o SubSeq(node.kids, 1, stop), charsets)
              [] node.tag \in {TagStar, TagNot} -> AdcLoop(rest \o node.kids, charsets)
              [] node.tag \in {TagOr, TagAnd}   -> AdcLoop(rest \o node.kids, charsets)

approx_deriv_classes(root) == AdcLoop(<<root>>, {bs_universe})

RECURSIVE AdcVecFold(_, _, _)
AdcVecFold(q, i, acc) ==
    IF i > Len(q) THEN acc
    ELSE AdcVecFold(q, i + 1, cross(acc, approx_deriv_classes(q[i])))

approx_deriv_classes_vec(q) == AdcVecFold(q, 1, {bs_universe})

\* DFA::step, DFA::class, DFA::matches on a vector of states (states[id] is
\* d[id + 1]); indexing past the vector panics
Panicked == -2

step(d, id, symbol) ==
    IF id >= Len(d) THEN Panicked
    ELSE IF symbol \in DOMAIN d[id + 1].next THEN d[id + 1].next[symbol] ELSE 0

class(d, id) == IF id >= Len(d) THEN Panicked ELSE d[id + 1].class

RECURSIVE run_from(_, _, _, _)
run_from(d, id, text, i) ==
    IF i > Len(text) \/ id = Panicked THEN id
    ELSE run_from(d, step(d, id, text[i]), text, i + 1)

\* the fold of matches: the state reached from state 1
reached(d, text) == run_from(d, 1, text, 1)

class_on(d, text) ==
    IF reached(d, text) = Panicked THEN Panicked ELSE class(d, reached(d, text))

\* matches: "true", "false", or "panic" when an index is out of bounds
matches(d, text) ==
    IF class_on(d, text) = Panicked THEN "panic"
    ELSE IF class_on(d, text) # NoClass THEN "true" ELSE "false"

\* the map re2idx with key k set to v
MapInsert(m, k, v) == [x \in DOMAIN m \cup {k} |-> IF x = k THEN v ELSE m[x]]

\* goto's wiring: every byte of set goes to j in state i
Wire(sts, i, bset, j) ==
    [sts EXCEPT ![i + 1].next =
        [a \in DOMAIN @ \cup { bytes(bset)[n] : n \in 1 .. Len(bytes(bset)) } |->
            IF contains(bset, a) THEN j ELSE @[a]]]

\* ---------------------------------------------------------------- Hopcroft
\* the ascending iteration of a BTreeSet<usize>
RECURSIVE Ascending(_)
Ascending(ids) ==
    IF ids = {} THEN <<>>
    ELSE LET m == CHOOSE x \in ids : \A y \in ids : x <= y
         IN <<m>> \o Ascending(ids \ {m})

\* lexicographic order of two BTreeSet<usize> (Ids): TRUE when x sorts before y
RECURSIVE SeqLess(_, _, _)
SeqLess(xs, ys, i) ==
    IF i > Len(ys) THEN FALSE
    ELSE IF i > Len(xs) THEN TRUE
    ELSE IF xs[i] < ys[i] THEN TRUE
    ELSE IF xs[i] > ys[i] THEN FALSE
    ELSE SeqLess(xs, ys, i + 1)

IdsLess(x, y) == SeqLess(Ascending(x), Ascending(y), 1)

\* the iteration order of a BTreeSet<Ids> (a Partition, the worklist)
RECURSIVE InOrder(_)
InOrder(blocks) ==
    IF blocks = {} THEN <<>>
    ELSE LET m == CHOOSE x \in blocks : \A y \in blocks \ {x} : IdsLess(x, y)
         IN <<m>> \o InOrder(blocks \ {m})

\* alphabet: every byte that has an entry in some state
alphabet(d) == UNION { DOMAIN d[i].next : i \in 1 .. Len(d) }

\* InvDFA::new and InvDFA::inverse: the sources that reach ids by symbol, a
\* source without an entry for symbol going to state 0; {} models None
inverse(d, ids, symbol) ==
    { s \in 0 .. (Len(d) - 1) : step(d, s, symbol) \in ids }

\* coarse_partition keyed by the state's index instead of its class
coarse_partition_by_id(d) == { {id} : id \in 0 .. (Len(d) - 1) }

\* coarse_partition with every state in one block
coarse_partition_one_block(d) == { 0 .. (Len(d) - 1) }

\* coarse_partition: the states grouped by class tag
coarse_partition(d) ==
    { { id \in 0 .. (Len(d) - 1) : d[id + 1].class = c } :
          c \in { d[i].class : i \in 1 .. Len(d) } }

\* all_but_largest: max_by_key keeps the last of the largest blocks
all_but_largest(partition) ==
    LET ord == InOrder(partition)
        argmax == CHOOSE i \in 1 .. Len(ord) :
                     /\ \A k \in 1 .. Len(ord) :
                           Cardinality(ord[k]) <= Cardinality(ord[i])
                     /\ \A k \in (i + 1) .. Len(ord) :
                           Cardinality(ord[k]) < Cardinality(ord[i])
    IN { ord[i] : i \in 1 .. Len(ord) } \ { ord[argmax] }

\* take_some: the first block of the worklist
take_some(blocks) == InOrder(blocks)[1]

\* a take_some that leaves the block in the worklist
waiting_after_peek(blocks) == blocks

\* the worklist after take_some: BTreeSet::take removes the block
waiting_after_take(blocks) == blocks \ { take_some(blocks) }

\* split_sets giving the whole block as the first piece
split_sets_whole_first(sets, domain) ==
    { <<p, p, p \ domain>> : p \in
          { q \in sets : q \cap domain # {} /\ q \ domain # {} } }

\* split_sets: the blocks cut by domain, each with its two pieces
split_sets(sets, domain) ==
    { <<p, p \cap domain, p \ domain>> : p \in
          { q \in sets : q \cap domain # {} /\ q \ domain # {} } }

\* the worklist update adding the first piece whatever the sizes
WaitingAfterSplit_first_piece(wait, p, p1, p2) ==
    IF p \in wait THEN (wait \ {p}) \cup {p1, p2} ELSE wait \cup {p1}

\* the worklist after one split (p, (p1, p2)) of the refinement loop
WaitingAfterSplit(wait, p, p1, p2) ==
    IF p \in wait THEN (wait \ {p}) \cup {p1, p2}
    ELSE IF Cardinality(p1) <= Cardinality(p2) THEN wait \cup {p1}
    ELSE wait \cup {p2}

\* the loop over the splits stopping after the first of them, a waiting
\* block being replaced by its first piece and no other piece added
ApplySplits_first_only(splits, part, wait) ==
    IF splits = {} THEN <<part, wait>>
    ELSE LET s == CHOOSE x \in splits : TRUE
         IN <<(part \ {s[1]}) \cup {s[2], s[3]},
              IF s[1] \in wait THEN (wait \ {s[1]}) \cup {s[2]} ELSE wait>>

\* the loop over the splits of one symbol; the splits were collected before
RECURSIVE ApplySplits(_, _, _)
ApplySplits(splits, part, wait) ==
    IF splits = {} THEN <<part, wait>>
    ELSE LET s == CHOOSE x \in splits : TRUE
         IN ApplySplits(splits \ {s},
                        (part \ {s[1]}) \cup {s[2], s[3]},
                        WaitingAfterSplit(wait, s[1], s[2], s[3]))

\* minimize, after equivalence_classes: one state per block but the first
MinClass(d, block) ==
    LET cs == { d[id + 1].class : id \in block } \ { NoClass }
    IN IF cs = {} THEN NoClass ELSE CHOOSE c \in cs : \A e \in cs : c <= e

\* position among the blocks after the first of the block holding dest; 0: none
BlockOf(ord, dest) ==
    IF \E n \in 2 .. Len(ord) : dest \in ord[n]
    THEN (CHOOSE n \in 2 .. Len(ord) : dest \in ord[n]) - 1
    ELSE 0

\* the transitions of a block with those into the first block kept, as 0
MinNext_with_sink(d, ord, block) ==
    LET wired(symbol) == { s \in block : symbol \in DOMAIN d[s + 1].next }
        symbols == { a \in alphabet(d) : wired(a) # {} }
    IN [a \in symbols |->
           LET s == CHOOSE x \in wired(a) : \A y \in wired(a) : x <= y
           IN BlockOf(ord, d[s + 1].next[a])]

MinNext(d, ord, block) ==
    LET wired(symbol) == { s \in block : /\ symbol \in DOMAIN d[s + 1].next
                                         /\ BlockOf(ord, d[s + 1].next[symbol]) # 0 }
        symbols == { a \in alphabet(d) : wired(a) # {} }
    IN [a \in symbols |->
           LET s == CHOOSE x \in wired(a) : \A y \in wired(a) : x <= y
           IN BlockOf(ord, d[s + 1].next[a])]

\* minimize giving the states of the blocks in reverse order
minimize_states_reversed(d, partition) ==
    LET ord == InOrder(partition)
        k   == Len(ord)
    IN <<sink_state>> \o
       [n \in 1 .. (k - 1) |->
           State(MinNext(d, ord, ord[k + 1 - n]), MinClass(d, ord[k + 1 - n]))]

minimize_states(d, partition) ==
    LET ord == InOrder(partition)
    IN <<sink_state>> \o
       [n \in 1 .. (Len(ord) - 1) |->
           State(MinNext(d, ord, ord[n + 1]), MinClass(d, ord[n + 1]))]

\* ------------------------------------------------------------ NaiveLexTable
\* Command
Emit == "Emit"
Skip == "Skip"

\* the table keeping the DFA's own indices for the targets
NaiveLexTable_unshifted(dfa, commands) ==
    LET nrows == Len(dfa) - 1
    IN [ next |-> [k \in 1 .. (NumBytes * nrows) |->
                      LET i      == (k - 1) \div NumBytes
                          symbol == (k - 1) % NumBytes
                      IN IF symbol \in DOMAIN dfa[i + 2].next
                         THEN dfa[i + 2].next[symbol]
                         ELSE nrows],
         classes |-> [k \in 1 .. (nrows + 1) |->
                         IF k <= nrows THEN dfa[k + 1].class ELSE NoClass],
         commands |-> commands ]

\* NaiveLexTable::new after DFA::from(regexes).minimize(): row i of the table is
\* state i + 1 of the DFA, the sink is the row after the last (next[k] is
\* next[k + 1] here, as classes and commands)
NaiveLexTable(dfa, commands) ==
    LET nrows == Len(dfa) - 1
    IN [ next |-> [k \in 1 .. (NumBytes * nrows) |->
                      LET i      == (k - 1) \div NumBytes
                          symbol == (k - 1) % NumBytes
                      IN IF symbol \in DOMAIN dfa[i + 2].next
                         THEN dfa[i + 2].next[symbol] - 1
                         ELSE nrows],
         classes |-> [k \in 1 .. (nrows + 1) |->
                         IF k <= nrows THEN dfa[k + 1].class ELSE NoClass],
         commands |-> commands ]

START_STATE == 0

table_step(t, state, symbol) ==
    IF NumBytes * state + symbol < Len(t.next)
    THEN t.next[NumBytes * state + symbol + 1] ELSE Panicked

table_class(t, state) ==
    IF state >= 0 /\ state < Len(t.classes) THEN t.classes[state + 1] ELSE Panicked

\* a sink index past the last entry of classes
table_sink_past_end(t) == Len(t.classes)

table_sink(t) == Len(t.classes) - 1

table_command(t, c) == t.commands[c + 1]

\* --------------------------------------------------------------------- Scan
\* Scan.index after a ScanError: usize::MAX, above every position of an input
usize_MAX == MaxInputLen + 1

Token(c, lo, hi) == [kind |-> "ok", class |-> c, lo |-> lo, hi |-> hi, pos |-> 0]
ScanError(pos)   == [kind |-> "err", class |-> NoClass, lo |-> 0, hi |-> 0, pos |-> pos]
ItemNone         == [kind |-> "none", class |-> NoClass, lo |-> 0, hi |-> 0, pos |-> 0]
\* the call never returns
ItemHang         == [kind |-> "hang", class |-> NoClass, lo |-> 0, hi |-> 0, pos |-> 0]

\* the for loop stopping at the first accepting state it passes
RECURSIVE simulate_first_accept(_, _, _, _, _, _)
simulate_first_accept(t, input, state, index, last_accept_state, last_accept_index) ==
    IF index >= Len(input) \/ state = table_sink(t) \/ table_class(t, state) # NoClass
    THEN [ state |-> state, index |-> index,
           last_accept_state |-> last_accept_state,
           last_accept_index |-> last_accept_index ]
    ELSE simulate_first_accept(t, input, table_step(t, state, input[index + 1]),
                               index + 1, last_accept_state, last_accept_index)

\* the for loop of next: simulate the table until the sink or the end of input
RECURSIVE simulate(_, _, _, _, _, _)
simulate(t, input, state, index, last_accept_state, last_accept_index) ==
    IF index >= Len(input) \/ state = table_sink(t)
    THEN [ state |-> state, index |-> index,
           last_accept_state |-> last_accept_state,
           last_accept_index |-> last_accept_index ]
    ELSE IF table_class(t, state) # NoClass
    THEN simulate(t, input, table_step(t, state, input[index + 1]), index + 1,
                  state, index)
    ELSE simulate(t, input, table_step(t, state, input[index + 1]), index + 1,
                  last_accept_state, last_accept_index)

\* Scan::next returning every token, whatever its command
RECURSIVE scan_next_emit_all(_, _, _)
scan_next_emit_all(t, input, index) ==
    IF ~(index < Len(input)) THEN [item |-> ItemNone, index |-> index]
    ELSE LET s == simulate(t, input, START_STATE, index, table_sink(t), 0)
         IN IF table_class(t, s.state) # NoClass
            THEN [item |-> Token(table_class(t, s.state), index, s.index),
                  index |-> s.index]
            ELSE IF table_class(t, s.last_accept_state) # NoClass
            THEN [item |-> Token(table_class(t, s.last_accept_state), index,
                                 s.last_accept_index),
                  index |-> s.last_accept_index]
            ELSE [item |-> ScanError(index), index |-> usize_MAX]

\* Scan::next: the item returned and Scan.index after the call. The while loop
\* goes round again after a Skip token; when that token is empty the loop is
\* back in the state it was in, and the call never returns.
RECURSIVE scan_next(_, _, _)
scan_next(t, input, index) ==
    IF ~(index < Len(input)) THEN [item |-> ItemNone, index |-> index]
    ELSE LET s == simulate(t, input, START_STATE, index, table_sink(t), 0)
         IN IF table_class(t, s.state) # NoClass
            THEN IF table_command(t, table_class(t, s.state)) = Emit
                 THEN [item |-> Token(table_class(t, s.state), index, s.index),
                       index |-> s.index]
                 ELSE scan_next(t, input, s.index)
            ELSE IF table_class(t, s.last_accept_state) # NoClass
            THEN IF table_command(t, table_class(t, s.last_accept_state)) = Emit
                 THEN [item |-> Token(table_class(t, s.last_accept_state), index,
                                      s.last_accept_index),
                       index |-> s.last_accept_index]
                 ELSE IF s.last_accept_index = index
                 THEN [item |-> ItemHang, index |-> index]
                 ELSE scan_next(t, input, s.last_accept_index)
            ELSE [item |-> ScanError(index), index |-> usize_MAX]

\* ---------------------------------------------------------------- the state
VARIABLES
    re,         \* algebra: the RegEx value being built
    nops,       \* algebra: constructor applications so far
    pc,         \* DFA: where DFA::from(..).minimize() stands
    start,      \* DFA: the RegExVec handed to DFABuilder::build
    states,     \* DFABuilder.states, then the built DFA
    re2idx,     \* DFABuilder.re2idx
    frames,     \* the calls of explore in progress: q, i, the blocks not yet visited
    partition,  \* equivalence_classes: partition
    waiting,    \* equivalence_classes: waiting
    w,          \* equivalence_classes: the block taken from waiting
    symbols,    \* the symbols of alph not yet visited for w
    min,        \* the DFA returned by minimize
    table,      \* scanner: the NaiveLexTable
    input,      \* scanner: Scan.input
    index,      \* scanner: Scan.index
    item,       \* scanner: what the call of next in progress returned
    items,      \* scanner: the items the caller has received, oldest first
    bs,         \* byte set: the ByteSet the last call returned or was made on
    call,       \* byte set: the last call and its arguments
    out         \* byte set: the values bytes() yielded, collected

algVars == <<re, nops>>
dfaVars == <<pc, start, states, re2idx, frames, partition, waiting, w, symbols, min>>
scanVars == <<table, input, index, item, items>>
setVars == <<bs, call, out>>
vars == <<re, nops, pc, start, states, re2idx, frames, partition, waiting, w, symbols, min,
          table, input, index, item, items, bs, call, out>>

\* the byte sets handed to RegEx::set: the empty set, two points of the first
\* word, a set with a value in every word that is not the universe, the universe
SetInputs == { bs_empty, point(0), point(1),
               union(point(0), point(WordBits)), bs_universe }

Atoms == { none, empty } \cup { set(s) : s \in SetInputs }

\* no item: the caller holds nothing it has not yet collected
NoItem == [kind |-> "no", class |-> NoClass, lo |-> 0, hi |-> 0, pos |-> 0]
NoTable == [next |-> <<>>, classes |-> <<>>, commands |-> <<>>]
Call(op, from, to) == [op |-> op, from |-> from, to |-> to]

\* the scanner variables before a table is built
ScanIdle ==
    /\ table = NoTable
    /\ input = <<>>
    /\ index = 0
    /\ item = NoItem
    /\ items = <<>>

\* the byte set variables while no byte set is under test
SetIdle ==
    /\ bs = bs_empty
    /\ call = Call("none", 0, 0)
    /\ out = <<>>

\* the DFA variables before DFA::from is called
DfaIdle ==
    /\ pc = "idle"
    /\ start = <<>>
    /\ states = <<>>
    /\ re2idx = NoNext
    /\ frames = <<>>
    /\ partition = {}
    /\ waiting = {}
    /\ w = {}
    /\ symbols = {}
    /\ min = <<>>

\* ------------------------------------------------- the algebra, step by step
\* the other operand of a binary constructor: a leaf, or the value itself
Operands == Atoms \cup { re }

AlgInit ==
    /\ re \in Atoms
    /\ nops = 0
    /\ DfaIdle
    /\ ScanIdle
    /\ SetIdle

Apply(result) ==
    /\ nops < MaxOps
    /\ re' = result
    /\ nops' = nops + 1
    /\ UNCHANGED <<dfaVars, scanVars, setVars>>

DoThen   == \E o \in Operands : Apply(then(re, o)) \/ Apply(then(o, re))
DoStar   == Apply(star(re))
DoOr     == \E o \in Operands : Apply(or(re, o)) \/ Apply(or(o, re))
DoAnd    == \E o \in Operands : Apply(and(re, o)) \/ Apply(and(o, re))
DoNot    == Apply(not(re))
DoOpt    == Apply(opt(re))
DoPlus   == Apply(plus(re))
DoDiff   == \E o \in Operands : Apply(diff(re, o)) \/ Apply(diff(o, re))
DoDeriv  == \E a \in Bytes : Apply(deriv(re, a))

AlgNext ==
    \/ DoThen \/ DoStar \/ DoOr \/ DoAnd \/ DoNot
    \/ DoOpt \/ DoPlus \/ DoDiff \/ DoDeriv

SpecAlgebra == AlgInit /\ [][AlgNext]_vars

\* ------------------------------------------- DFA::from(..).minimize(), by step
ra  == set(point(0))
rb  == set(point(1))
rst == set(union(point(0), point(WordBits)))

\* the expressions handed to DFA::from, built with the constructors
Regexes ==
    { none, ra, rst,
      star(ra),
      plus(ra),
      then(ra, rb),
      or(ra, then(ra, star(ra))),
      or(ra, then(rb, rb)),
      then(or(ra, rb), star(or(ra, rb))),
      and(then(ra, ra), star(rb)),
      or(then(ra, rb), then(rb, and(rb, star(rb)))),
      diff(star(set(bs_universe)), then(ra, rb)),
      then(star(ra), star(ra)) }

\* the vectors handed to DFA::from: one expression, or two with priorities
InputVecs ==
    { <<r>> : r \in Regexes }
    \cup { <<plus(ra), plus(or(ra, rb))>>, <<plus(or(ra, rb)), plus(ra)>>,
           <<then(ra, rb), star(ra)>>, <<rst, ra>>, <<>>,
           <<plus(ra), plus(rb)>>,
           <<or(ra, then(ra, rb)), or(rb, then(rb, ra))>>,
           <<set(union(point(1), point(WordBits))), set(bs_universe)>> }

Frame(q, i, todo) == [q |-> q, i |-> i, todo |-> todo]

\* the frames of explore that still have a block to visit
RECURSIVE Unwind(_)
Unwind(fs) ==
    IF fs = <<>> THEN fs
    ELSE IF fs[Len(fs)].todo = {} THEN Unwind(SubSeq(fs, 1, Len(fs) - 1))
    ELSE fs

DfaInit ==
    /\ re = empty
    /\ nops = 0
    /\ pc = "from"
    /\ start \in InputVecs
    /\ states = <<>>
    /\ re2idx = NoNext
    /\ frames = <<>>
    /\ partition = {}
    /\ waiting = {}
    /\ w = {}
    /\ symbols = {}
    /\ min = <<>>
    /\ ScanIdle
    /\ SetIdle

\* DFABuilder::build up to the call of explore(start, 1): the sink, then
\* add_state(start)
Build ==
    /\ pc = "from"
    /\ pc' = "explore"
    /\ states' = <<sink_state, State(NoNext, vec_class(start))>>
    /\ re2idx' = MapInsert(MapInsert(NoNext, vec_sink(Len(start)), 0), start, 1)
    /\ frames' = <<Frame(start, 1, approx_deriv_classes_vec(start))>>
    /\ UNCHANGED <<algVars, scanVars, setVars, start, partition, waiting, w, symbols, min>>

\* DFABuilder::goto for one block of the explore call on top, the blocks of a
\* HashSet coming in any order; build returns when the last call of explore does
Goto ==
    /\ pc = "explore"
    /\ \E bset \in frames[Len(frames)].todo :
          LET top  == frames[Len(frames)]
              c    == smallest(bset)
              qc   == vec_deriv(top.q, c)
              left == [frames EXCEPT ![Len(frames)].todo = @ \ {bset}]
              j    == Len(states)
          IN IF qc \in DOMAIN re2idx
             THEN /\ states' = Wire(states, top.i, bset, re2idx[qc])
                  /\ frames' = Unwind(left)
                  /\ pc' = IF frames' = <<>> THEN "built" ELSE "explore"
                  /\ UNCHANGED re2idx
             ELSE IF j < MaxDfaStates
             THEN /\ re2idx' = MapInsert(re2idx, qc, j)
                  /\ states' = Wire(Append(states, State(NoNext, vec_class(qc))),
                                    top.i, bset, j)
                  /\ frames' = Unwind(Append(left,
                                   Frame(qc, j, approx_deriv_classes_vec(qc))))
                  /\ pc' = IF frames' = <<>> THEN "built" ELSE "explore"
             ELSE /\ pc' = "overflow"
                  /\ UNCHANGED <<states, re2idx, frames>>
    /\ UNCHANGED <<algVars, scanVars, setVars, start, partition, waiting, w, symbols, min>>

\* equivalence_classes up to its loop
EquivStart ==
    /\ pc = "built"
    /\ pc' = "refine"
    /\ partition' = coarse_partition(states)
    /\ waiting' = all_but_largest(partition')
    /\ UNCHANGED <<algVars, scanVars, setVars, start, states, re2idx, frames, w, symbols, min>>

\* the head of the while loop: take_some
TakeSome ==
    /\ pc = "refine"
    /\ symbols = {}
    /\ waiting # {}
    /\ w' = take_some(waiting)
    /\ waiting' = waiting_after_take(waiting)
    /\ symbols' = alphabet(states)
    /\ UNCHANGED <<algVars, scanVars, setVars, pc, start, states, re2idx, frames, partition, min>>

\* one symbol of the for loop, the symbols of alph coming in any order
Refine ==
    /\ pc = "refine"
    /\ \E a \in symbols :
          LET inv == inverse(states, w, a)
              res == ApplySplits(split_sets(partition, inv), partition, waiting)
          IN /\ partition' = res[1]
             /\ waiting' = res[2]
             /\ symbols' = symbols \ {a}
    /\ UNCHANGED <<algVars, scanVars, setVars, pc, start, states, re2idx, frames, w, min>>

\* the loop is over: minimize builds the states from the partition
Finish ==
    /\ pc = "refine"
    /\ symbols = {}
    /\ waiting = {}
    /\ pc' = "done"
    /\ min' = minimize_states(states, partition)
    /\ UNCHANGED <<algVars, scanVars, setVars, start, states, re2idx, frames, partition, waiting, w, symbols>>

DfaNext == Build \/ Goto \/ EquivStart \/ TakeSome \/ Refine \/ Finish

SpecDfa == DfaInit /\ [][DfaNext]_vars

\* the loop of equivalence_classes is sequential code: its next step is
\* always taken
SpecDfaLive ==
    SpecDfa /\ WF_vars(TakeSome) /\ WF_vars(Refine) /\ WF_vars(Finish)

\* ------------------------------------- NaiveLexTable::new and Scan, by call
\* the bytes of the scanner's inputs: two of the first word, one of the second
ScanBytes == { 0, 1, WordBits }

RECURSIVE InputsOfLen(_)
InputsOfLen(n) == IF n = 0 THEN { <<>> }
                  ELSE { Append(t, b) : t \in InputsOfLen(n - 1), b \in ScanBytes }

ScanInputs == UNION { InputsOfLen(n) : n \in 0 .. MaxInputLen }

\* the caller keeps at most MaxItems items: enough for every token of an input
\* whose tokens are not empty, the error or None after them, and a None more
MaxItems == MaxInputLen + 3

\* NaiveLexTable::new(regexes, commands), once DFA::from(regexes).minimize()
\* has returned: one command per pattern
NewTable ==
    /\ pc = "done"
    /\ pc' = "table"
    /\ \E commands \in [1 .. Len(start) -> {Emit, Skip}] :
          table' = NaiveLexTable(min, commands)
    /\ UNCHANGED <<algVars, setVars, start, states, re2idx, frames, partition,
                   waiting, w, symbols, min, input, index, item, items>>

\* Scan::new(&table, &input)
ScanNew ==
    /\ pc = "table"
    /\ pc' = "scan"
    /\ input' \in ScanInputs
    /\ index' = 0
    /\ UNCHANGED <<algVars, setVars, start, states, re2idx, frames, partition,
                   waiting, w, symbols, min, table, item, items>>

\* the caller calls next
ScanNext ==
    /\ pc = "scan"
    /\ item = NoItem
    /\ item' = scan_next(table, input, index).item
    /\ index' = scan_next(table, input, index).index
    /\ UNCHANGED <<algVars, setVars, dfaVars, table, input, items>>

\* the caller takes the item the call returned
Collect ==
    /\ pc = "scan"
    /\ item \notin { NoItem, ItemHang }
    /\ items' = IF Len(items) < MaxItems THEN Append(items, item) ELSE items
    /\ item' = NoItem
    /\ UNCHANGED <<algVars, setVars, dfaVars, table, input, index>>

ScanStep == NewTable \/ ScanNew \/ ScanNext \/ Collect

SpecScan == DfaInit /\ [][DfaNext \/ ScanStep]_vars

\* a caller that calls next again after every item it has taken
SpecScanLive == SpecScan /\ WF_vars(ScanNext) /\ WF_vars(Collect)

\* ----------------------------------------------------- ByteSet, by call
SetInit ==
    /\ re = empty
    /\ nops = 0
    /\ DfaIdle
    /\ ScanIdle
    /\ SetIdle

SetCall(op, from, to, result) ==
    /\ bs' = result
    /\ call' = Call(op, from, to)
    /\ out' = <<>>
    /\ re' = empty
    /\ UNCHANGED <<nops, dfaVars, scanVars>>

SetPoint        == \E v \in Bytes : SetCall("point", v, v, point(v))
SetRange        == \E from \in Bytes, to \in Bytes :
                       SetCall("range", from, to, range(from, to))
SetComplement   == SetCall("complement", 0, 0, complement(bs))
SetUnion        == \E v \in Bytes : SetCall("union", v, v, union(bs, point(v)))
SetIntersection == \E from \in Bytes, to \in Bytes :
                       SetCall("intersection", from, to,
                               intersection(bs, range(from, to)))

\* bs.bytes().collect()
SetBytes ==
    /\ call.op # "bytes"
    /\ call' = Call("bytes", 0, 0)
    /\ out' = bytes(bs)
    /\ UNCHANGED <<algVars, dfaVars, scanVars, bs>>

\* RegEx::set(bs)
SetRegEx ==
    /\ call.op \notin {"set", "not"}
    /\ re' = set(bs)
    /\ call' = Call("set", 0, 0)
    /\ UNCHANGED <<nops, dfaVars, scanVars, bs, out>>

\* RegEx::set(bs).not()
NotRegEx ==
    /\ call.op = "set"
    /\ re' = not(re)
    /\ call' = Call("not", 0, 0)
    /\ UNCHANGED <<nops, dfaVars, scanVars, bs, out>>

SetNext == SetPoint \/ SetRange \/ SetComplement \/ SetUnion \/ SetIntersection
           \/ SetBytes \/ SetRegEx \/ NotRegEx

SpecByteSet == SetInit /\ [][SetNext]_vars

\* --------------------------------------- the test `derivative`, by derivative
\* the two ranges of the test, on the scaled alphabet: both start in the first
\* word and end in a later one; byte 1 is in both, byte 0 in the first only
set1 == set(range(0, WordBits))
set2 == set(range(1, NumBytes - 1))

\* re1 as the test builds it
re1 == and(or(and(set1, set2), set1), set2)
\* r without the last and
re1_short == or(and(set1, set2), set1)

\* re1.then(&re1).then(&re1).then(&re1)
four_times(r) == then(then(then(r, r), r), r)

\* the number of derivatives the test takes in a row
DerivDepth == 4

DerivInit ==
    /\ nops = 0
    /\ pc = "idle"
    /\ start \in { <<four_times(re1)>>, <<four_times(re1_short)>> }
    /\ re = start[1]
    /\ states = <<>>
    /\ re2idx = NoNext
    /\ frames = <<>>
    /\ partition = {}
    /\ waiting = {}
    /\ w = {}
    /\ symbols = {}
    /\ min = <<>>
    /\ ScanIdle
    /\ SetIdle

\* re.deriv(a), input being the bytes derived by so far
DerivStep ==
    /\ Len(input) < DerivDepth
    /\ \E a \in Bytes :
          /\ re' = deriv(re, a)
          /\ input' = Append(input, a)
    /\ UNCHANGED <<nops, dfaVars, setVars, table, index, item, items>>

SpecDerivative == DerivInit /\ [][DerivStep]_vars

\* ------------------------------------------------------ the algebra's claims
\* every text of at most MaxTextLen bytes
RECURSIVE TextsOfLen(_)
TextsOfLen(n) == IF n = 0 THEN { <<>> }
                 ELSE { <<b>> \o t : b \in Bytes, t \in TextsOfLen(n - 1) }

Texts == UNION { TextsOfLen(n) : n \in 0 .. MaxTextLen }

\* the set-theoretic language of an expression tree: Set(s) the one-byte texts
\* over s, Cat concatenation, Star Kleene closure, Or union, And intersection,
\* Not the complement with respect to all texts
RECURSIVE InLang(_, _), InLangCat(_, _, _)
InLang(r, txt) ==
    CASE r.tag = TagNone    -> FALSE
      [] r.tag = TagEpsilon -> txt = <<>>
      [] r.tag = TagSet     -> Len(txt) = 1 /\ contains(r.set, txt[1])
      [] r.tag = TagCat     -> InLangCat(r.kids, 1, txt)
      [] r.tag = TagStar    ->
            \/ txt = <<>>
            \/ \E i \in 1 .. Len(txt) :
                  /\ InLang(r.kids[1], SubSeq(txt, 1, i))
                  /\ InLang(r, SubSeq(txt, i + 1, Len(txt)))
      [] r.tag = TagOr      -> \E i \in 1 .. Len(r.kids) : InLang(r.kids[i], txt)
      [] r.tag = TagAnd     -> \A i \in 1 .. Len(r.kids) : InLang(r.kids[i], txt)
      [] r.tag = TagNot     -> ~InLang(r.kids[1], txt)

InLangCat(kids, k, txt) ==
    IF k > Len(kids) THEN txt = <<>>
    ELSE \E i \in 0 .. Len(txt) :
            /\ InLang(kids[k], SubSeq(txt, 1, i))
            /\ InLangCat(kids, k + 1, SubSeq(txt, i + 1, Len(txt)))

\* deriv folded over the bytes of a text
RECURSIVE deriv_sequence(_, _, _)
deriv_sequence(r, txt, i) ==
    IF i > Len(txt) THEN r ELSE deriv_sequence(deriv(r, txt[i]), txt, i + 1)

\* every node of an expression tree, the root included
RECURSIVE NodesOf(_)
NodesOf(r) == { r } \cup UNION { NodesOf(r.kids[i]) : i \in 1 .. Len(r.kids) }

\* C1: derivative soundness: a text belongs to the language of the expression
\* if and only if the expression derived by the text's bytes is nullable.
C1_DerivativeSound ==
    \A txt \in Texts : InLang(re, txt) <=> is_nullable(deriv_sequence(re, txt, 1))

\* C2: the complement constructor negates membership, for every text.
C2_NotNegatesMembership ==
    \A txt \in Texts : is_fullmatch(not(re), txt) = ~is_fullmatch(re, txt)

\* C8: or and and are idempotent, and no Or or And node holds two structurally
\* equal children.
C8_OrAndIdempotent ==
    /\ or(re, re) = re
    /\ and(re, re) = re
    /\ \A n \in NodesOf(re) :
          n.tag \in {TagOr, TagAnd} =>
              \A i, j \in 1 .. Len(n.kids) : i # j => n.kids[i] # n.kids[j]

\* the per-variant invariants of one node
NodeCanonical(n) ==
    LET kidTags == { n.kids[i].tag : i \in 1 .. Len(n.kids) }
    IN CASE n.tag = TagSet  -> ~is_empty(n.set)
         [] n.tag = TagCat  -> /\ Len(n.kids) >= 2
                               /\ kidTags \cap {TagNone, TagEpsilon, TagCat} = {}
         [] n.tag = TagStar -> kidTags \cap {TagNone, TagEpsilon, TagStar} = {}
         [] n.tag = TagOr   -> /\ Len(n.kids) >= 2
                               /\ kidTags \cap {TagNone, TagOr} = {}
         [] n.tag = TagAnd  -> /\ Len(n.kids) >= 2
                               /\ kidTags \cap {TagNone, TagEpsilon, TagAnd} = {}
         [] n.tag = TagNot  -> kidTags \cap {TagNone, TagSet, TagNot} = {}
         [] OTHER           -> n.tag \in {TagNone, TagEpsilon}

\* C9: canonical form stability: every node of every value built by the
\* constructors and deriv satisfies the invariants of its variant.
C9_CanonicalForm == \A n \in NodesOf(re) : NodeCanonical(n)

\* C10: in every Or and And node at most one child is a Set and the children
\* are in non-decreasing order of the derived order.
C10_OrAndSortedOneSet ==
    \A n \in NodesOf(re) :
        n.tag \in {TagOr, TagAnd} =>
            /\ Cardinality({ i \in 1 .. Len(n.kids) : n.kids[i].tag = TagSet }) <= 1
            /\ \A i \in 1 .. (Len(n.kids) - 1) :
                  CmpRegEx(n.kids[i], n.kids[i + 1]) <= 0

\* an Or or And built in two or more steps whose folded Set lies between an
\* Epsilon or Set-smaller child and a larger one
C10_Witness ==
    /\ nops >= 2
    /\ re.tag \in {TagOr, TagAnd}
    /\ Len(re.kids) >= 3
    /\ \E i \in 2 .. (Len(re.kids) - 1) : re.kids[i].tag = TagSet

\* ---------------------------------------------------------- the DFA's claims
Built == pc \in {"built", "refine", "done"}

\* what matches must answer for a truth value
Answer(b) == IF b THEN "true" ELSE "false"

\* the smallest index (0-based) of a component that fully matches; NoClass: none
FirstMatch(q, txt) ==
    IF \E i \in 1 .. Len(q) : is_fullmatch(q[i], txt)
    THEN (CHOOSE i \in 1 .. Len(q) :
             /\ is_fullmatch(q[i], txt)
             /\ \A j \in 1 .. (i - 1) : ~is_fullmatch(q[j], txt)) - 1
    ELSE NoClass

\* C3: the DFA built from one expression recognizes what the expression fully
\* matches: matches(text) equals is_fullmatch(text) for every text.
C3_DfaRecognizesRegex ==
    (Built /\ Len(start) = 1) =>
        \A txt \in Texts : matches(states, txt) = Answer(is_fullmatch(start[1], txt))

\* C4: accept-class priority: the class of the state reached on a text is the
\* smallest index of a component that fully matches it, and None when none does.
C4_AcceptClassPriority ==
    Built => \A txt \in Texts : class_on(states, txt) = FirstMatch(start, txt)

\* C5: minimization preserves behaviour: matches and the accept class of the
\* state reached agree between the built DFA and the minimized one, on every text.
C5_MinimizePreserves ==
    pc = "done" =>
        \A txt \in Texts :
            /\ matches(min, txt) = matches(states, txt)
            /\ class_on(min, txt) = class_on(states, txt)

\* the pairs of states told apart by some text of at most k bytes
RECURSIVE DistinguishedWithin(_, _)
DistinguishedWithin(d, k) ==
    LET ids == 0 .. (Len(d) - 1)
    IN IF k = 0
       THEN { p \in ids \X ids : class(d, p[1]) # class(d, p[2]) }
       ELSE LET prev == DistinguishedWithin(d, k - 1)
            IN prev \cup { p \in ids \X ids :
                             \E a \in Bytes :
                                <<step(d, p[1], a), step(d, p[2], a)>> \in prev }

\* C6: minimality: every two distinct states of the minimized DFA, the sink
\* included, reach different accept classes on some text.
C6_Minimal ==
    pc = "done" =>
        \A s, u \in 0 .. (Len(min) - 1) :
            s # u => <<s, u>> \in DistinguishedWithin(min, Len(min))

\* minimize merged states of the built DFA and still returned several states
C6_Witness ==
    /\ pc = "done"
    /\ Len(min) >= 3
    /\ Len(min) < Len(states)

\* C7: DFA construction terminates: build allocates finitely many states (here:
\* never as many as MaxDfaStates, for the input vectors of the model).
C7_BuildTerminates == pc # "overflow"

\* ------------------------------------------------------ the scanner's claims
\* the state the table is in after txt from state st; the sink is never left
RECURSIVE TableRun(_, _, _, _)
TableRun(t, st, txt, i) ==
    IF i > Len(txt) \/ st = table_sink(t) THEN st
    ELSE TableRun(t, table_step(t, st, txt[i]), txt, i + 1)

\* input[lo..hi] drives the table from START_STATE to this state
Drives(lo, hi) == TableRun(table, START_STATE, SubSeq(input, lo + 1, hi), 1)

Accepted(lo, hi) == table_class(table, Drives(lo, hi)) # NoClass

\* what the caller has been handed so far, the item not yet collected included
Yielded ==
    IF item # NoItem /\ Len(items) < MaxItems THEN Append(items, item) ELSE items

YieldedTokens == { Yielded[k] : k \in { j \in 1 .. Len(Yielded) : Yielded[j].kind = "ok" } }

\* C11: every Ok token yielded, of span [lo, hi) and class c, is such that
\* input[lo..hi] drives the table from START_STATE to a state of class c and no
\* longer prefix of input[lo..] drives it to an accepting state.
C11_ScanLongestMatch ==
    \A tok \in YieldedTokens :
        /\ table_class(table, Drives(tok.lo, tok.hi)) = tok.class
        /\ \A h \in (tok.hi + 1) .. Len(input) : ~Accepted(tok.lo, h)

\* a token of two bytes or more with an accepted shorter prefix, yielded after
\* another token and before the end of the input
C11_Witness ==
    /\ pc = "scan"
    /\ item.kind = "ok"
    /\ item.hi - item.lo >= 2
    /\ Accepted(item.lo, item.lo + 1)
    /\ item.lo > 0
    /\ items # <<>>

AllEmit == \A k \in 1 .. Len(table.commands) : table.commands[k] = Emit

\* the end of the token before position k of ys, 0 when there is none
EndBefore(ys, k) == IF k > 1 /\ ys[k - 1].kind = "ok" THEN ys[k - 1].hi ELSE 0

Tiling(ys) ==
    \A k \in 1 .. Len(ys) :
        /\ ys[k].kind = "ok" =>
              /\ ys[k].lo = EndBefore(ys, k)
              /\ k > 1 => ys[k - 1].kind = "ok"
        /\ ys[k].kind = "err" =>
              /\ ys[k].pos = EndBefore(ys, k)
              /\ k > 1 => ys[k - 1].kind = "ok"
        /\ ys[k].kind = "none" =>
              \/ EndBefore(ys, k) = Len(input) /\ (k > 1 => ys[k - 1].kind = "ok")
              \/ k > 1 /\ ys[k - 1].kind \in {"err", "none"}

\* C12: with every class on Emit the spans of the tokens are contiguous and in
\* order: the first starts at 0, each later one starts where the one before
\* ended, and the sequence ends, either with the last span ending at the input's
\* length or with a ScanError whose pos is the end of the last token.
C12_ScanCoverage ==
    /\ [](pc = "scan" /\ AllEmit => Tiling(Yielded))
    /\ (pc = "scan" /\ AllEmit) ~> (item = ItemNone)

\* the patterns of the vector that fully match txt, by index from 0
Matching(txt) == { i \in 0 .. (Len(start) - 1) : is_fullmatch(start[i + 1], txt) }

\* C13: when two or more patterns fully match the text of a yielded token, the
\* token's class is the smallest index among them.
C13_ScanPriority ==
    \A tok \in YieldedTokens :
        LET m == Matching(SubSeq(input, tok.lo + 1, tok.hi))
        IN Cardinality(m) >= 2 => \A i \in m : tok.class <= i

NoPrefixAccepted(p) == \A h \in (p + 1) .. Len(input) : ~Accepted(p, h)

\* C14: a call of next at a position p from which no non-empty prefix is
\* accepted yields Err(ScanError { pos: p }), and every item after an error is
\* None.
C14_ScanErrorTerminal ==
    /\ [][(/\ pc = "scan"
           /\ item = NoItem
           /\ item' # NoItem
           /\ index < Len(input)
           /\ NoPrefixAccepted(index)) => item' = ScanError(index)]_vars
    /\ [](\A j \in 1 .. Len(Yielded) : \A k \in (j + 1) .. Len(Yielded) :
              Yielded[j].kind = "err" => Yielded[k] = ItemNone)

\* C15: no yielded token has an empty span.
C15_NoEmptyToken == \A tok \in YieldedTokens : tok.lo < tok.hi

\* the table with every class on Emit
EmitTable == [table EXCEPT !.commands = [k \in DOMAIN table.commands |-> Emit]]

\* the items of the first n calls of next on a scanner of EmitTable at position p
RECURSIVE EmitRun(_, _)
EmitRun(p, n) ==
    IF n = 0 THEN <<>>
    ELSE <<scan_next(EmitTable, input, p).item>>
         \o EmitRun(scan_next(EmitTable, input, p).index, n - 1)

Skipped(it) == it.kind = "ok" /\ table_command(table, it.class) = Skip

RECURSIVE WithoutSkipped(_)
WithoutSkipped(ys) ==
    IF ys = <<>> THEN ys
    ELSE IF Skipped(ys[1]) THEN WithoutSkipped(Tail(ys))
    ELSE <<ys[1]>> \o WithoutSkipped(Tail(ys))

\* calls enough for MaxItems items to be left after MaxInputLen skipped tokens
EmitCalls == MaxItems + MaxInputLen + 2

\* C16: the items yielded under a command assignment are the items yielded with
\* every class on Emit, the tokens of the Skip classes removed; where nothing
\* is left to yield after them the call does not return.
C16_SkipIsFilteredEmit ==
    pc = "scan" =>
        LET ref == WithoutSkipped(EmitRun(0, EmitCalls))
        IN /\ Len(items) <= Len(ref)
           /\ items = SubSeq(ref, 1, Len(items))
           /\ (item \notin {NoItem, ItemHang} /\ Len(items) < MaxItems) =>
                 /\ Len(ref) > Len(items)
                 /\ ref[Len(items) + 1] = item
           /\ item = ItemHang => Len(ref) = Len(items)

\* two tokens yielded with a token of a Skip class between them, then None
C16_Witness ==
    /\ pc = "scan"
    /\ item = ItemNone
    /\ Len(items) >= 2
    /\ items[1].kind = "ok"
    /\ items[2].kind = "ok"
    /\ items[1].hi < items[2].lo

\* ------------------------------------------------------ the byte set's claims
\* the values whose bit is set in the bitmap
Members(bm) ==
    { v \in Bytes : (bm[(v \div WordBits) + 1] \div Pow2(v % WordBits)) % 2 = 1 }

\* C17: ByteSet::range(from, to) with from > to returns the empty set (the
\* code holds no assertion that could fail instead).
C17_RangeReversedEmpty ==
    (call.op = "range" /\ call.from > call.to) => Members(bs) = {}

\* C18: is_universe(s) is true if and only if s holds every value.
C18_IsUniverseExact == is_universe(bs) <=> Members(bs) = Bytes

StrictlyAscending(xs) == \A k \in 1 .. (Len(xs) - 1) : xs[k] < xs[k + 1]

\* C19: bytes() yields exactly the members of the set, each once, in strictly
\* ascending order (nothing for the empty set), and smallest() is the first
\* value yielded, or None for the empty set.
C19_BytesAscendingMembers ==
    call.op = "bytes" =>
        /\ { out[k] : k \in 1 .. Len(out) } = Members(bs)
        /\ StrictlyAscending(out)
        /\ smallest(bs) = IF out = <<>> THEN -1 ELSE out[1]

\* bytes() collected on a set of three values or more, not the universe, with
\* a value in the first word and a value in the last
C19_Witness ==
    /\ call.op = "bytes"
    /\ Len(out) >= 3
    /\ Len(out) < NumBytes
    /\ out[1] < WordBits
    /\ out[Len(out)] >= WordBits * (NumWords - 1)

\* ------------------------------------------------- the derivative scenario
\* C20 as stated: with r = (set1 AND set2) OR set1 and R = r.r.r.r, four
\* derivatives of R by a byte of both sets give Epsilon and the derivative of R
\* by a byte of set1 only is None.
C20_NestedDerivativeAsStated ==
    start = <<four_times(re1_short)>> =>
        /\ input = <<1, 1, 1, 1>> => re = empty
        /\ input = <<0>> => re = none

\* C20 amended: it is with r = ((set1 AND set2) OR set1) AND set2, as the test
\* builds it, that four derivatives of R by a byte of both sets give Epsilon
\* and the derivative by a byte of set1 only is None; with r as stated the four
\* derivatives give Epsilon too, but the derivative by the byte of set1 only
\* is r.r.r, not None.
C20_NestedDerivativeOfTest ==
    /\ start = <<four_times(re1)>> =>
          /\ input = <<1, 1, 1, 1>> => re = empty
          /\ input = <<0>> => re = none
    /\ start = <<four_times(re1_short)>> =>
          /\ input = <<1, 1, 1, 1>> => re = empty
          /\ input = <<0>> => re = then(then(re1_short, re1_short), re1_short)

\* the four derivatives of the test's R by the byte of both sets
C20_Witness ==
    /\ start = <<four_times(re1)>>
    /\ input = <<1, 1, 1, 1>>
    /\ re = empty

\* the texts of n bytes of the set
RECURSIVE TextsIn(_, _)
TextsIn(bm, n) ==
    IF n = 0 THEN { <<>> }
    ELSE { Append(t, b) : t \in TextsIn(bm, n - 1), b \in Members(bm) }

\* C21: operands that are all sets fold into one node and derive exactly: re1
\* of the test is the single node Set(set1 /\ set2); for R = re1.re1.re1.re1,
\* four derivatives by bytes of the set give exactly Epsilon, and one
\* derivative by a byte outside the set gives exactly None.
C21_SetOperandsFold ==
    /\ re1 = RawSet(range(1, WordBits))
    /\ start = <<four_times(re1)>> =>
          /\ input \in TextsIn(re1.set, DerivDepth) => re = empty
          /\ (Len(input) = 1 /\ input[1] \notin Members(re1.set)) => re = none

\* the four derivatives taken by two different bytes of the set
C21_Witness ==
    /\ start = <<four_times(re1)>>
    /\ re1.tag = TagSet
    /\ input \in TextsIn(re1.set, DerivDepth)
    /\ input[1] # input[2]
    /\ re = empty

\* ------------------------------------------------------- complement and not
\* C22: for every byte set s, RegEx::set(s.complement()) is structurally equal
\* to RegEx::set(s).not(); both are None when s is the universe.
C22_SetComplementIsNot ==
    call.op = "not" =>
        /\ re = set(complement(bs))
        /\ Members(bs) = Bytes => re = none

\* not() taken of the Set of a set that is neither empty nor the universe
C22_Witness ==
    /\ call.op = "not"
    /\ re.tag = TagSet
    /\ Members(bs) # {}
    /\ Members(re.set) = Bytes \ Members(bs)

\* C23: double negation: r.not().not() is structurally equal to r, for every r
\* the constructors and deriv give.
C23_DoubleNegation == not(not(re)) = re

\* a Not node built by the constructors, whose not() is the node under it
C23_Witness ==
    /\ nops >= 2
    /\ re.tag = TagNot
    /\ re.kids[1].tag \in {TagCat, TagOr, TagAnd}

\* C24: intersection with the universal language is the identity:
\* r.and(&RegEx::set(universe).star()) equals r.
C24_AndUniverseStar == and(re, star(set(bs_universe))) = re

\* ------------------------------------------------ the minimized DFA's shape
\* C25: D.minimize() has distinct sink and start states: at least two states,
\* state 0 (no class, no transitions) standing for the block of D's state 0 and
\* state 1 for the block of D's start state 1, so that matches is defined on it.
C25_MinimizeKeepsStart ==
    pc = "done" =>
        /\ Len(min) >= 2
        /\ min[1].class = NoClass
        /\ DOMAIN min[1].next = {}
        /\ 0 \in InOrder(partition)[1]
        /\ 1 \in InOrder(partition)[2]
        /\ \A txt \in Texts : matches(min, txt) # "panic"

\* C26: the table is an exact re-indexing of the minimized DFA: with N the
\* number of states other than the sink, next has NumBytes * N entries, classes
\* has N + 1 with None last, sink() is N, and for every state i of 1 .. N and
\* byte b, class(i - 1) is the DFA's class(i) and step(i - 1, b) is the DFA's
\* step(i, b) - 1, or N where the DFA steps to 0.
C26_TableReindexesDfa ==
    pc \in {"table", "scan"} =>
        LET n == Len(min) - 1
        IN /\ Len(table.next) = NumBytes * n
           /\ Len(table.classes) = n + 1
           /\ table.classes[n + 1] = NoClass
           /\ table_sink(table) = n
           /\ \A i \in 1 .. n :
                 /\ table_class(table, i - 1) = class(min, i)
                 /\ \A b \in Bytes :
                       table_step(table, i - 1, b) =
                           IF step(min, i, b) # 0 THEN step(min, i, b) - 1 ELSE n

\* a table of two rows or more with a step to the sink and a step to a row
C26_Witness ==
    /\ pc = "table"
    /\ Len(min) >= 3
    /\ \E i \in 1 .. (Len(min) - 1), b \in Bytes : step(min, i, b) = 0
    /\ \E i \in 1 .. (Len(min) - 1), b \in Bytes : step(min, i, b) > 1

\* ------------------------------------------------------ the built DFA's claims
\* build with explore visiting the blocks by ascending smallest byte: the
\* builder's states and re2idx once the last call of explore has returned
\* (states empty: more than MaxDfaStates states)
RECURSIVE BuildAscending(_, _, _)
BuildAscending(sts, idx, frs) ==
    IF frs = <<>> THEN [states |-> sts, re2idx |-> idx]
    ELSE LET top  == frs[Len(frs)]
             bset == CHOOSE x \in top.todo :
                         \A y \in top.todo : smallest(x) <= smallest(y)
             qc   == vec_deriv(top.q, smallest(bset))
             left == [frs EXCEPT ![Len(frs)].todo = @ \ {bset}]
             j    == Len(sts)
         IN IF qc \in DOMAIN idx
            THEN BuildAscending(Wire(sts, top.i, bset, idx[qc]), idx, Unwind(left))
            ELSE IF j < MaxDfaStates
            THEN BuildAscending(
                     Wire(Append(sts, State(NoNext, vec_class(qc))), top.i, bset, j),
                     MapInsert(idx, qc, j),
                     Unwind(Append(left, Frame(qc, j, approx_deriv_classes_vec(qc)))))
            ELSE [states |-> <<>>, re2idx |-> idx]

\* C27: the builder is deterministic: whatever the order in which explore
\* visits the blocks, DFA::from gives the DFA (the number of states, the index
\* of every derivative vector, the classes and the transitions) that it gives
\* when it visits them in ascending order.
C27_BuilderDeterministic ==
    pc = "built" =>
        [states |-> states, re2idx |-> re2idx] =
            BuildAscending(
                <<sink_state, State(NoNext, vec_class(start))>>,
                MapInsert(MapInsert(NoNext, vec_sink(Len(start)), 0), start, 1),
                Unwind(<<Frame(start, 1, approx_deriv_classes_vec(start))>>))

\* --------------------------------------------------------- the algebra is total
\* C28: for every RegEx the constructors and deriv give, deriv returns a value
\* for every byte: every Cat, Or and And node has two children or more, so the
\* unreachable!() arms of deriv_cat, deriv_or and deriv_and are never taken.
C28_AlgebraTotal ==
    /\ \A n \in NodesOf(re) :
          /\ n # Panic
          /\ n.tag \in {TagCat, TagOr, TagAnd} => Len(n.kids) >= 2
    /\ \A a \in Bytes : Panic \notin NodesOf(deriv(re, a))

\* a Cat of a nullable head under an Or or an And, whose derivative goes
\* through deriv_cat for the tail as well
C28_Witness ==
    /\ nops >= 2
    /\ re.tag \in {TagOr, TagAnd}
    /\ \E k \in 1 .. Len(re.kids) :
          /\ re.kids[k].tag = TagCat
          /\ is_nullable(re.kids[k].kids[1])

\* ------------------------------------------- approximate derivative classes
\* blocks is a partition of the bytes into non-empty, pairwise disjoint blocks
IsPartitionOfBytes(blocks) ==
    /\ \A s \in blocks : Members(s) # {}
    /\ \A s, t \in blocks : s # t => Members(s) \cap Members(t) = {}
    /\ UNION { Members(s) : s \in blocks } = Bytes

\* C29: for every vector Q the builder meets, and every component r of it,
\* approx_deriv_classes(r) and approx_deriv_classes_vec(Q) are partitions of
\* the bytes, and two bytes of one block give structurally equal derivatives.
C29_AdcSound ==
    \A q \in DOMAIN re2idx :
        /\ IsPartitionOfBytes(approx_deriv_classes_vec(q))
        /\ \A s \in approx_deriv_classes_vec(q) : \A a, b \in Members(s) :
              vec_deriv(q, a) = vec_deriv(q, b)
        /\ \A i \in 1 .. Len(q) :
              /\ IsPartitionOfBytes(approx_deriv_classes(q[i]))
              /\ \A s \in approx_deriv_classes(q[i]) : \A a, b \in Members(s) :
                    deriv(q[i], a) = deriv(q[i], b)

\* ------------------------------------------------------ shape of a built DFA
\* C30: in the DFA that DFA::from returns, state 0 is the sink (class None,
\* empty map), state 1 is the state of the input vector, every transition
\* target is an index of the state vector, and step(id, b) is 0 exactly when
\* state id has no entry for b or has an entry to 0.
C30_BuiltDfaShape ==
    pc = "built" =>
        /\ Len(states) >= 2
        /\ states[1].class = NoClass
        /\ DOMAIN states[1].next = {}
        /\ re2idx[start] = 1
        /\ states[2].class = vec_class(start)
        /\ \A id \in 0 .. (Len(states) - 1) : \A b \in Bytes :
              /\ b \in DOMAIN states[id + 1].next =>
                    states[id + 1].next[b] \in 0 .. (Len(states) - 1)
              /\ step(states, id, b) = 0 <=>
                    \/ b \notin DOMAIN states[id + 1].next
                    \/ states[id + 1].next[b] = 0

\* a built DFA of three states or more where an accepting start state has
\* an entry to the sink and an entry to another state
C30_Witness ==
    /\ pc = "built"
    /\ Len(states) >= 3
    /\ states[2].class # NoClass
    /\ \E b \in DOMAIN states[2].next : states[2].next[b] = 0
    /\ \E b \in DOMAIN states[2].next : states[2].next[b] > 1

\* ------------------------------------------------- Hopcroft refinement claims
Refining == pc \in {"refine", "done"}

\* C31: during the refinement and in the final partition every block holds
\* states of one accept class only, so that the min over the classes of a
\* block is the class of each of its members.
C31_BlocksShareClass ==
    Refining =>
        \A p \in partition : \A s \in p :
            /\ MinClass(states, p) = states[s + 1].class
            /\ \A t \in p : states[t + 1].class = states[s + 1].class

\* a split has been applied and a block of two accepting states is left
C31_Witness ==
    /\ Refining
    /\ partition # coarse_partition(states)
    /\ \E p \in partition :
          /\ Cardinality(p) >= 2
          /\ MinClass(states, p) # NoClass

\* the splits the symbol a gives in the current state: (p, p1, p2) with
\* p1 = p \cap X, p2 = p \ X and X the states that reach w by a
SplitsBy(a) == split_sets(partition, inverse(states, w, a))

\* C32: the initial worklist is every block of the coarse partition but one
\* block of largest cardinality; when a block p is split into p1 and p2, p is
\* replaced in the worklist by both pieces if it was there, and otherwise
\* exactly one piece is added, the one with fewer states, p1 on a tie.
C32_WorklistUpdate ==
    [][ /\ (pc = "built" /\ pc' = "refine") =>
              \E m \in partition' :
                  /\ \A p \in partition' : Cardinality(p) <= Cardinality(m)
                  /\ waiting' = partition' \ {m}
        /\ (pc = "refine" /\ symbols' # symbols /\ symbols' \subseteq symbols) =>
              \A a \in symbols \ symbols' : \A s \in SplitsBy(a) :
                  IF s[1] \in waiting
                  THEN /\ s[1] \notin waiting'
                       /\ s[2] \in waiting'
                       /\ s[3] \in waiting'
                  ELSE IF Cardinality(s[2]) <= Cardinality(s[3])
                  THEN s[2] \in waiting' /\ s[3] \notin waiting'
                  ELSE s[3] \in waiting' /\ s[2] \notin waiting'
      ]_vars

\* one symbol has split two blocks of the coarse partition: the two pieces
\* of the one that was in the worklist are both there, and of the other one
\* only a piece that is not the larger one
C32_Witness ==
    /\ pc = "refine"
    /\ \E p1 \in waiting, p2 \in waiting :
          /\ p1 # p2
          /\ (p1 \cup p2) \in coarse_partition(states)
    /\ \E q1 \in waiting, q2 \in partition \ waiting :
          /\ q1 # q2
          /\ (q1 \cup q2) \in coarse_partition(states)
          /\ Cardinality(q1) <= Cardinality(q2)

\* C33: after every split of the refinement loop the blocks of partition are
\* non-empty, pairwise disjoint and cover the indices of the DFA's states, and
\* every block of the worklist is a block of the partition.
PartitionOk(part, wait) ==
    /\ {} \notin part
    /\ \A p \in part, q \in part : p # q => p \cap q = {}
    /\ UNION part = 0 .. (Len(states) - 1)
    /\ wait \subseteq part

\* the states inside the for loop over the splits of one symbol are the
\* results of applying some of the splits collected for it
C33_PartitionInvariant ==
    Refining =>
        /\ PartitionOk(partition, waiting)
        /\ \A a \in symbols : \A some \in SUBSET SplitsBy(a) :
              LET res == ApplySplits(some, partition, waiting)
              IN PartitionOk(res[1], res[2])

\* two splits or more were applied and the worklist is not empty
C33_Witness ==
    /\ pc = "refine"
    /\ Cardinality(partition) >= Cardinality(coarse_partition(states)) + 2
    /\ waiting # {}

\* C34: the refinement terminates: the worklist becomes empty and minimize
\* returns, because a step of the loop never removes a block, the number of
\* blocks is bounded by the number of states, and taking a block from the
\* worklist shrinks it by one while a symbol that splits nothing leaves it.
C34_RefinementTerminates ==
    /\ (pc = "refine") ~> (pc = "done")
    /\ [][ (pc = "refine" /\ pc' = "refine") =>
              /\ Cardinality(partition') >= Cardinality(partition)
              /\ Cardinality(partition') <= Len(states)
              /\ partition' = partition => Cardinality(waiting') <= Cardinality(waiting)
              /\ (symbols = {} /\ partition' = partition) =>
                    Cardinality(waiting') = Cardinality(waiting) - 1
              /\ Cardinality(waiting') > Cardinality(waiting) =>
                    Cardinality(partition') > Cardinality(partition)
         ]_vars

\* minimize has returned after a refinement that split blocks
C34_Witness ==
    /\ pc = "done"
    /\ Cardinality(partition) >= Cardinality(coarse_partition(states)) + 2
    /\ waiting = {}

\* equivalence_classes with the symbols of alph taken in ascending order
RECURSIVE SymbolLoop(_, _, _, _, _)
SymbolLoop(d, block, syms, part, wait) ==
    IF syms = <<>> THEN <<part, wait>>
    ELSE LET res == ApplySplits(split_sets(part, inverse(d, block, Head(syms))),
                                part, wait)
         IN SymbolLoop(d, block, Tail(syms), res[1], res[2])

RECURSIVE WhileLoop(_, _, _)
WhileLoop(d, part, wait) ==
    IF wait = {} THEN part
    ELSE LET res == SymbolLoop(d, take_some(wait), Ascending(alphabet(d)),
                               part, waiting_after_take(wait))
         IN WhileLoop(d, res[1], res[2])

equivalence_classes_ascending(d) ==
    WhileLoop(d, coarse_partition(d), all_but_largest(coarse_partition(d)))

\* C35: the partition equivalence_classes returns, and with it the DFA that
\* minimize returns, is the same for every order in which the symbols of the
\* alphabet are processed for each block taken from the worklist.
C35_SymbolOrderIrrelevant ==
    pc = "done" =>
        /\ partition = equivalence_classes_ascending(states)
        /\ min = minimize_states(states, equivalence_classes_ascending(states))

\* minimize has returned after splits, for a DFA with two symbols or more
C35_Witness ==
    /\ pc = "done"
    /\ Cardinality(alphabet(states)) >= 2
    /\ Cardinality(partition) >= Cardinality(coarse_partition(states)) + 2

\* ------------------------------------------------------------ state interning
\* C36: in a built DFA the map re2idx is one-to-one between the vectors met
\* and the indices of the states: every state, the sink and the start
\* included, is the state of one vector, and no two states are the states of
\* the same vector, also when the input vector is all None or empty.
C36_InterningInjective ==
    pc = "built" =>
        /\ \A q1 \in DOMAIN re2idx, q2 \in DOMAIN re2idx :
              q1 # q2 => re2idx[q1] # re2idx[q2]
        /\ { re2idx[q] : q \in DOMAIN re2idx } = 0 .. (Len(states) - 1)

\* ------------------------------------------------------ scanner memory safety
\* the states the for loop of next hands to step, from state st at position i
RECURSIVE StepCalls(_, _, _, _)
StepCalls(t, txt, st, i) ==
    IF i >= Len(txt) \/ st = table_sink(t) \/ st = Panicked THEN {}
    ELSE {st} \cup StepCalls(t, txt, table_step(t, st, txt[i + 1]), i + 1)

\* the states a call of next that starts its loop at position p hands to class
ClassCalls(p) ==
    LET s == simulate(table, input, START_STATE, p, table_sink(table), 0)
    IN StepCalls(table, input, START_STATE, p) \cup { s.state, s.last_accept_state }

\* C37: for every table of NaiveLexTable::new and every input, next never
\* calls step with the sink state, whose row is not in next, nor class with an
\* index above sink(), and every span yielded has lo <= hi <= input length.
C37_ScanMemorySafe ==
    pc = "scan" =>
        /\ \A p \in 0 .. (Len(input) - 1) :
              /\ \A st \in StepCalls(table, input, START_STATE, p) :
                    /\ st \in 0 .. (table_sink(table) - 1)
                    /\ \A b \in Bytes : table_step(table, st, b) # Panicked
              /\ \A st \in ClassCalls(p) :
                    /\ st \in 0 .. table_sink(table)
                    /\ table_class(table, st) # Panicked
        /\ \A tok \in YieldedTokens : tok.lo <= tok.hi /\ tok.hi <= Len(input)

\* a token up to the end of the input was yielded after another one, and from
\* some position the loop runs into the sink before the end of the input
C37_Witness ==
    /\ pc = "scan"
    /\ \E tok \in YieldedTokens : tok.lo > 0 /\ tok.hi = Len(input)
    /\ \E p \in 0 .. (Len(input) - 1) :
          LET s == simulate(table, input, START_STATE, p, table_sink(table), 0)
          IN s.state = table_sink(table) /\ s.index < Len(input)

\* ----------------------------------------------------------- scanner progress
\* C38: every call of next returns, and the stored position strictly
\* increases with every token recognized, emitted or skipped (a call that
\* skips a token without moving goes round its loop for ever).
C38_ScanProgress ==
    [][ (pc = "scan" /\ item = NoItem /\ item' # NoItem) =>
           /\ item' # ItemHang
           /\ item'.kind = "ok" => index' > index
      ]_vars

\* ------------------------------------------------- minimization is idempotent
\* C39: minimizing a minimized DFA changes nothing: D.minimize().minimize()
\* has the states of D.minimize(), with the same classes and transitions,
\* state by state.
\* the partitions equivalence_classes can return, one for every order of the
\* symbols of alph in every round of its loop
RECURSIVE SymbolLoopAnyOrder(_, _, _, _, _)
SymbolLoopAnyOrder(d, block, syms, part, wait) ==
    IF syms = {} THEN { <<part, wait>> }
    ELSE UNION { LET res == ApplySplits(split_sets(part, inverse(d, block, a)),
                                        part, wait)
                 IN SymbolLoopAnyOrder(d, block, syms \ {a}, res[1], res[2]) :
                 a \in syms }

RECURSIVE WhileLoopAnyOrder(_, _, _)
WhileLoopAnyOrder(d, part, wait) ==
    IF wait = {} THEN { part }
    ELSE UNION { WhileLoopAnyOrder(d, r[1], r[2]) :
                 r \in SymbolLoopAnyOrder(d, take_some(wait), alphabet(d), part,
                                          waiting_after_take(wait)) }

equivalence_classes_any_order(d) ==
    WhileLoopAnyOrder(d, coarse_partition(d), all_but_largest(coarse_partition(d)))

C39_MinimizeIdempotent ==
    pc = "done" =>
        \A part \in equivalence_classes_any_order(min) :
            minimize_states(min, part) = min

\* a minimized DFA of four states or more, smaller than the DFA built, with
\* an accepting state
C39_Witness ==
    /\ pc = "done"
    /\ Len(min) >= 4
    /\ Len(min) < Len(states)
    /\ \E n \in 1 .. Len(min) : min[n].class # NoClass

\* ----------------------------------------- no transition into the sink
\* C40: a minimized DFA has no entry whose destination is state 0, the
\* transitions into the sink block being left out, so that dest - 1 in
\* NaiveLexTable::new is never below 0 and every entry written into next is
\* below the number of rows.
C40_NoEntryToSink ==
    /\ pc \in {"done", "table", "scan"} =>
          \A n \in 1 .. Len(min) : \A b \in DOMAIN min[n].next :
              min[n].next[b] \in 1 .. (Len(min) - 1)
    /\ pc \in {"table", "scan"} =>
          \A k \in 1 .. Len(table.next) :
              LET i == (k - 1) \div NumBytes
                  b == (k - 1) % NumBytes
              IN /\ table.next[k] \in 0 .. (Len(min) - 1)
                 /\ b \in DOMAIN min[i + 2].next => table.next[k] < Len(min) - 1

\* a table of two rows or more built from a DFA where a state outside the
\* sink block has an entry into the sink block
C40_Witness ==
    /\ pc = "table"
    /\ Len(min) >= 3
    /\ \E s \in 1 .. (Len(states) - 1) : \E b \in DOMAIN states[s + 1].next :
          /\ s \notin InOrder(partition)[1]
          /\ states[s + 1].next[b] \in InOrder(partition)[1]

====
